---------------------------- MODULE Spec2Model ----------------------------
(***************************************************************************)
(* Model of src/app.py: the Judge.me review proxy.                         *)
(*                                                                         *)
(*   fetch_all_shop_reviews  the pagination loop against the upstream API  *)
(*   calculate_stats         count, rounded average and 1..5 histogram     *)
(*   get_reviews_route       GET /api/product-reviews: fetch, filter,      *)
(*                           aggregate, normalize, respond                 *)
(*                                                                         *)
(* Python strings are sequences of one-character strings, so that          *)
(* indexing, upper-casing and int() parsing are computed, not assumed.     *)
(* A JSON value is a record [t, n, s]: t is the type tag, n the number     *)
(* (a bool is 0/1, a float is kept in tenths), s the string.               *)
(***************************************************************************)
EXTENDS Integers, Sequences, FiniteSets, TLC

VARIABLES
    pc,               \* position of the process under study
    target_handle,    \* request.args.get('handle')
    page,             \* fetch_all_shop_reviews: page
    all_reviews,      \* fetch_all_shop_reviews: all_reviews
    requests,         \* the upstream GETs issued so far (their params)
    replies,          \* what the upstream answered to each of them
    raw_reviews,      \* get_reviews_route: raw_reviews (the fetcher's return)
    filtered_reviews, \* get_reviews_route: filtered_reviews
    response,         \* what the route hands back to the HTTP client
    fn_in,            \* argument of the function under study (pure-function specs)
    fn_out            \* its result

vars == <<pc, target_handle, page, all_reviews, requests, replies,
          raw_reviews, filtered_reviews, response, fn_in, fn_out>>

---------------------------------------------------------------------------
(* Bounds of the model *)

MaxPages == 4
MaxSmall == 1
MaxWide == 2
MaxNarrow == 8

(* per_page = 100 *)
PerPage == 100

---------------------------------------------------------------------------
(* JSON values as Python sees them *)

Absent == [t |-> "absent", n |-> 0, s |-> <<>>]
JNull == [t |-> "null", n |-> 0, s |-> <<>>]
JTrue == [t |-> "bool", n |-> 1, s |-> <<>>]
JFalse == [t |-> "bool", n |-> 0, s |-> <<>>]
JInt(i) == [t |-> "int", n |-> i, s |-> <<>>]
JFloat(tenths) == [t |-> "float", n |-> tenths, s |-> <<>>]
JStr(str) == [t |-> "str", n |-> 0, s |-> str]

(* dict.get(key, default): the default only when the key is absent *)
Get(v, default) == IF v.t = "absent" THEN default ELSE v

(* Python truth value of a JSON scalar *)
Truthy(v) ==
    CASE v.t = "absent" -> FALSE
      [] v.t = "null" -> FALSE
      [] v.t = "str" -> Len(v.s) > 0
      [] OTHER -> v.n # 0

Digits == <<"0", "1", "2", "3", "4", "5", "6", "7", "8", "9">>

IsDigit(c) == \E i \in 1..Len(Digits) : Digits[i] = c

DigitVal(c) == (CHOOSE i \in 1..Len(Digits) : Digits[i] = c) - 1

RECURSIVE LStrip(_)
LStrip(str) ==
    IF str # <<>> /\ Head(str) = " " THEN LStrip(Tail(str)) ELSE str

RECURSIVE RStrip(_)
RStrip(str) ==
    IF str # <<>> /\ str[Len(str)] = " "
    THEN RStrip(SubSeq(str, 1, Len(str) - 1))
    ELSE str

RECURSIVE DecVal(_)
DecVal(str) ==
    IF str = <<>> THEN 0
    ELSE DecVal(SubSeq(str, 1, Len(str) - 1)) * 10 + DigitVal(str[Len(str)])

(* int(<str>): surrounding blanks stripped, one optional sign, then digits only *)
IntOfStr(str) ==
    LET core == RStrip(LStrip(str))
        signed == core # <<>> /\ Head(core) \in {"+", "-"}
        body == IF signed THEN Tail(core) ELSE core
        good == body # <<>> /\ \A i \in 1..Len(body) : IsDigit(body[i])
    IN  IF ~good THEN [ok |-> FALSE, val |-> 0]
        ELSE [ok |-> TRUE,
              val |-> IF signed /\ Head(core) = "-" THEN 0 - DecVal(body) ELSE DecVal(body)]

(* int(<float>) truncates toward zero; the float is held in tenths *)
TruncTenths(tenths) ==
    IF tenths >= 0 THEN tenths \div 10 ELSE 0 - ((0 - tenths) \div 10)

(* int(v): ok = FALSE when Python raises (TypeError on None, ValueError on text) *)
PyInt(v) ==
    CASE v.t \in {"int", "bool"} -> [ok |-> TRUE, val |-> v.n]
      [] v.t = "float" -> [ok |-> TRUE, val |-> TruncTenths(v.n)]
      [] v.t = "str" -> IntOfStr(v.s)
      [] OTHER -> [ok |-> FALSE, val |-> 0]

---------------------------------------------------------------------------
(* Raw reviews: the dicts of the upstream's "reviews" array.  The nested    *)
(* reviewer is [t, name] and pictures is [t, items], t being "absent",     *)
(* "null" or the container type; a picture is [urls |-> [t, original,      *)
(* huge]].                                                                 *)

NoUrls == [t |-> "absent", original |-> Absent, huge |-> Absent]
Urls(original, huge) == [t |-> "dict", original |-> original, huge |-> huge]
NoReviewer == [t |-> "absent", name |-> Absent]
NullReviewer == [t |-> "null", name |-> Absent]
Reviewer(name) == [t |-> "dict", name |-> name]
NoPictures == [t |-> "absent", items |-> <<>>]
Pictures(items) == [t |-> "list", items |-> items]

---------------------------------------------------------------------------
(* calculate_stats *)

(* rating = r.get('rating', 5) *)
RawRating(r) == Get(r.rating, JInt(5))

(* A variant whose fallback is the lowest rating *)
IntOrOne(v) == LET c == PyInt(v) IN IF c.ok THEN c.val ELSE 1

(* try: rating = int(rating) / except: rating = 5 *)
IntOrFive(v) == LET c == PyInt(v) IN IF c.ok THEN c.val ELSE 5

(* A variant that forgets the lower bound *)
ClampUpperOnly(x) == IF x > 5 THEN 5 ELSE x

(* if rating < 1: rating = 1 / if rating > 5: rating = 5 *)
Clamp(x) == IF x < 1 THEN 1 ELSE IF x > 5 THEN 5 ELSE x

CoerceRating(r) == Clamp(IntOrFive(RawRating(r)))

ZeroDistribution == [k \in 1..5 |-> 0]

(* distribution[rating] += 1; rating is one of the keys 1..5 after the clamp *)
Bump(distribution, rating) == [distribution EXCEPT ![rating] = @ + 1]

(* the for loop over reviews[lo..hi]: the [distribution, total_sum] those
   passes add up.  The range is halved so that the evaluation stays shallow;
   the increments commute, so the totals are the loop's. *)
RECURSIVE StatsLoop(_, _, _)
StatsLoop(reviews, lo, hi) ==
    IF lo > hi THEN [distribution |-> ZeroDistribution, total_sum |-> 0]
    ELSE IF lo = hi
    THEN LET rating == CoerceRating(reviews[lo])
         IN  [distribution |-> Bump(ZeroDistribution, rating), total_sum |-> rating]
    ELSE LET mid == (lo + hi) \div 2
             left == StatsLoop(reviews, lo, mid)
             right == StatsLoop(reviews, mid + 1, hi)
         IN  [distribution |-> [k \in 1..5 |-> left.distribution[k] + right.distribution[k]],
              total_sum |-> left.total_sum + right.total_sum]

(* Number of bits of a positive integer *)
RECURSIVE BitLen(_)
BitLen(x) == IF x <= 1 THEN 1 ELSE 1 + BitLen(x \div 2)

(* k more quotient bits of rem/den by long division (48 <= k <= 52): the
   remainder left and the last bit produced.  The bits are taken 16 at a
   time, then the k - 48 that are left; den stays below 2^15, so that no
   intermediate product passes 2^31. *)
FracBits(rem, den, k, last) ==
    LET r16 == (rem * 65536) % den
        r32 == (r16 * 65536) % den
        r48 == (r32 * 65536) % den
        tail == r48 * 2^(k - 48)
    IN  [rem |-> tail % den, last |-> (tail \div den) % 2]

(* average = total_sum / count, an IEEE double: the exact quotient num/den
   correctly rounded to 53 significant bits (ties to even).  dir is the side
   of num/den the double lies on: 1 above, -1 below, 0 when it is exact. *)
TrueDiv(num, den) ==
    LET whole == num \div den
        left == FracBits(num % den, den, 53 - BitLen(whole), whole % 2)
        dir == CASE left.rem = 0 -> 0
                 [] 2 * left.rem > den -> 1
                 [] 2 * left.rem < den -> -1
                 [] OTHER -> IF left.last = 1 THEN 1 ELSE -1
    IN  [num |-> num, den |-> den, dir |-> dir]

(* A variant that rounds a tie in the third decimal up *)
Round2HalfUp(x) == (200 * x.num + x.den) \div (2 * x.den)

(* round(average, 2), in hundredths: the double's exact value rounded to the
   nearest hundredth, an exact tie going to the even hundredth *)
Round2(x) ==
    LET h == (100 * x.num) \div x.den
        rem == (100 * x.num) % x.den
    IN  CASE 2 * rem < x.den -> h
          [] 2 * rem > x.den -> h + 1
          [] x.dir = 1 -> h + 1
          [] x.dir = -1 -> h
          [] OTHER -> IF h % 2 = 0 THEN h ELSE h + 1

(* The summary; average is held in hundredths (433 is 4.33) *)
calculate_stats(reviews) ==
    LET count == Len(reviews)
    IN  IF count = 0
        THEN [average |-> 0, count |-> 0, distribution |-> ZeroDistribution]
        ELSE LET acc == StatsLoop(reviews, 1, count)
                 average == TrueDiv(acc.total_sum, count)
             IN  [average |-> Round2(average),
                  count |-> count,
                  distribution |-> acc.distribution]

---------------------------------------------------------------------------
(* get_reviews_route: the filter *)

(* r_handle = r.get('product_handle'); skipped when r_handle != target_handle
   (target_handle is the str of the query string) *)
HandleMatches(r, handle) ==
    LET r_handle == Get(r.product_handle, JNull)
    IN  r_handle.t = "str" /\ r_handle.s = handle

(* A variant that tests the truth value: if not is_published *)
IsPublishedTruthy(r) == Truthy(Get(r.published, JNull))

(* is_published = r.get('published'); skipped when is_published is not True *)
IsPublished(r) ==
    LET is_published == Get(r.published, JNull)
    IN  is_published.t = "bool" /\ is_published.n = 1

(* a review is kept when neither continue is taken *)
Keep(r, handle) == HandleMatches(r, handle) /\ IsPublished(r)

FilterReviews(raw, handle) == SelectSeq(raw, LAMBDA r : Keep(r, handle))

---------------------------------------------------------------------------
(* get_reviews_route: the normalizing loop body.  Every step yields        *)
(* raised = TRUE where Python raises.                                      *)

LowerCase == <<"a", "b", "c", "d", "e", "f", "g", "h", "i", "j", "k", "l", "m",
               "n", "o", "p", "q", "r", "s", "t", "u", "v", "w", "x", "y", "z">>
UpperCase == <<"A", "B", "C", "D", "E", "F", "G", "H", "I", "J", "K", "L", "M",
               "N", "O", "P", "Q", "R", "S", "T", "U", "V", "W", "X", "Y", "Z">>

(* str.upper() of one character *)
Upper(c) ==
    IF \E i \in 1..26 : LowerCase[i] = c
    THEN UpperCase[CHOOSE i \in 1..26 : LowerCase[i] = c]
    ELSE c

(* img_url = urls.get('original') or urls.get('huge'), for one picture p;
   urls = p.get('urls', {}) and None.get raises *)
PictureUrl(p) ==
    IF p.urls.t = "null" THEN [raised |-> TRUE, url |-> JNull]
    ELSE LET original == IF p.urls.t = "absent" THEN JNull ELSE Get(p.urls.original, JNull)
             huge == IF p.urls.t = "absent" THEN JNull ELSE Get(p.urls.huge, JNull)
         IN  [raised |-> FALSE, url |-> IF Truthy(original) THEN original ELSE huge]

RECURSIVE MediaLoop(_, _, _)
MediaLoop(items, i, media) ==
    IF i > Len(items) THEN [raised |-> FALSE, media |-> media]
    ELSE LET got == PictureUrl(items[i])
         IN  IF got.raised THEN [raised |-> TRUE, media |-> media]
             ELSE MediaLoop(items, i + 1,
                            IF Truthy(got.url)
                            THEN Append(media, [type |-> "image", url |-> got.url])
                            ELSE media)

(* if r.get('pictures'): for p in r['pictures']: ... *)
ExtractMedia(r) ==
    IF r.pictures.t = "list" /\ r.pictures.items # <<>>
    THEN MediaLoop(r.pictures.items, 1, <<>>)
    ELSE [raised |-> FALSE, media |-> <<>>]

Anonymous == <<"A", "n", "o", "n", "y", "m", "o", "u", "s">>

(* A variant that indexes r['reviewer'] instead of defaulting it *)
ReviewerDataStrict(r) ==
    IF r.reviewer.t = "absent" THEN [raised |-> TRUE, data |-> NullReviewer]
    ELSE [raised |-> FALSE, data |-> r.reviewer]

(* reviewer_data = r.get('reviewer', {}) *)
ReviewerData(r) ==
    [raised |-> FALSE,
     data |-> IF r.reviewer.t = "absent" THEN Reviewer(Absent) ELSE r.reviewer]

(* author_name = reviewer_data.get('name', 'Anonymous') *)
AuthorName(r) ==
    LET got == ReviewerData(r)
    IN  IF got.raised \/ got.data.t = "null" THEN [raised |-> TRUE, name |-> JNull]
        ELSE [raised |-> FALSE, name |-> Get(got.data.name, JStr(Anonymous))]

(* initials = author_name[0].upper() if author_name else "A" *)
Initials(author_name) ==
    IF ~Truthy(author_name) THEN [raised |-> FALSE, initials |-> <<"A">>]
    ELSE IF author_name.t # "str" THEN [raised |-> TRUE, initials |-> <<>>]
    ELSE [raised |-> FALSE, initials |-> <<Upper(author_name.s[1])>>]

VerifiedValues ==
    { <<"b", "u", "y", "e", "r">>,
      <<"v", "e", "r", "i", "f", "i", "e", "d", "_", "b", "u", "y", "e", "r">>,
      <<"c", "o", "n", "f", "i", "r", "m", "e", "d", "-", "b", "u", "y", "e", "r">>,
      <<"e", "m", "a", "i", "l">>,
      <<"v", "e", "r", "i", "f", "i", "e", "d", "-", "p", "u", "r", "c", "h", "a", "s", "e">> }

(* raw_verified = r.get('verified', 'nothing') *)
RawVerified(r) == Get(r.verified, JStr(<<"n", "o", "t", "h", "i", "n", "g">>))

(* is_verified = raw_verified in [...] *)
IsVerified(raw_verified) == raw_verified.t = "str" /\ raw_verified.s \in VerifiedValues

(* "rating": int(r.get('rating', 5)) *)
ShownRating(r) == PyInt(RawRating(r))

NoReview ==
    [id |-> JNull, title |-> JNull, body |-> JNull, rating |-> 0, author |-> JNull,
     initials |-> <<>>, is_verified |-> FALSE, date |-> JNull, media |-> <<>>,
     verification_type |-> JNull]

(* One pass of the loop over filtered_reviews: the dict appended to
   clean_reviews, or raised *)
Normalize(r) ==
    LET media == ExtractMedia(r)
        author == AuthorName(r)
        initials == Initials(author.name)
        rating == ShownRating(r)
    IN  IF media.raised \/ author.raised \/ initials.raised \/ ~rating.ok
        THEN [raised |-> TRUE, review |-> NoReview]
        ELSE [raised |-> FALSE,
              review |-> [id |-> Get(r.id, JNull),
                          title |-> Get(r.title, JNull),
                          body |-> Get(r.body, JNull),
                          rating |-> rating.val,
                          author |-> author.name,
                          initials |-> initials.initials,
                          is_verified |-> IsVerified(RawVerified(r)),
                          date |-> Get(r.created_at, JNull),
                          media |-> media.media,
                          verification_type |-> RawVerified(r)]]

(* the loop over filtered_reviews: one dict appended per review, in order,
   unless a pass raises *)
NormalizeLoop(filtered) ==
    LET pass == [i \in 1..Len(filtered) |-> Normalize(filtered[i])]
    IN  IF \E i \in 1..Len(filtered) : pass[i].raised
        THEN [raised |-> TRUE, reviews |-> <<>>]
        ELSE [raised |-> FALSE, reviews |-> [i \in 1..Len(filtered) |-> pass[i].review]]

NoStats == [average |-> 0, count |-> 0, distribution |-> ZeroDistribution]

NoResponse == [status |-> 0, error |-> "", stats |-> NoStats, reviews |-> <<>>]

(* return jsonify({"error": "Missing 'handle' parameter"}), 400 *)
MissingHandle ==
    [status |-> 400, error |-> "Missing 'handle' parameter", stats |-> NoStats,
     reviews |-> <<>>]

(* Steps 4 to 6 of the route on the filtered list; an exception that leaves
   the view function is answered by Flask with status 500 *)
Respond(filtered) ==
    LET stats == calculate_stats(filtered)
        clean == NormalizeLoop(filtered)
    IN  IF clean.raised
        THEN [status |-> 500, error |-> "Internal Server Error", stats |-> NoStats,
              reviews |-> <<>>]
        ELSE [status |-> 200, error |-> "", stats |-> stats, reviews |-> clean.reviews]

---------------------------------------------------------------------------
(* fetch_all_shop_reviews: one pass of the while loop *)

(* A variant that treats a full page as the last one too *)
IsLastPageInclusive(current_batch) == Len(current_batch) <= PerPage

(* if len(current_batch) < per_page: break *)
IsLastPage(current_batch) == Len(current_batch) < PerPage

(* A variant that asks for the same page again after a failure *)
OnFailureRetry(pg, acc) == [stop |-> FALSE, page |-> pg, all_reviews |-> acc]

(* the break of the status check and of the except clause *)
OnFailure(pg, acc) == [stop |-> TRUE, page |-> pg, all_reviews |-> acc]

(* A reply is what requests.get and res.json() produce for one GET:
   kind "exception" when requests.get raises, else an HTTP reply with its
   status_code, whether its body parses (json_ok) and the body's 'reviews' *)
Failed(reply) ==
    reply.kind = "exception" \/ reply.status_code # 200 \/ ~reply.json_ok

(* current_batch = data.get('reviews', []) *)
CurrentBatch(reply) ==
    IF reply.reviews.t = "list" THEN reply.reviews.items ELSE <<>>

FetchBody(pg, acc, reply) ==
    IF Failed(reply) THEN OnFailure(pg, acc)
    ELSE LET current_batch == CurrentBatch(reply)
         IN  IF current_batch = <<>>
             THEN [stop |-> TRUE, page |-> pg, all_reviews |-> acc]
             ELSE IF IsLastPage(current_batch)
             THEN [stop |-> TRUE, page |-> pg, all_reviews |-> acc \o current_batch]
             ELSE [stop |-> FALSE, page |-> pg + 1, all_reviews |-> acc \o current_batch]

(* params of the GET *)
Params(pg) == [per_page |-> PerPage, page |-> pg]

---------------------------------------------------------------------------
(* Inputs: the requests and the upstream replies the model draws from *)

H1 == <<"h", "1">>
H2 == <<"h", "2">>

Str(chars) == JStr(chars)

FullReview ==
    [id |-> JInt(0),
     title |-> Str(<<"o", "k">>),
     body |-> Str(<<"f", "i", "n", "e">>),
     rating |-> JInt(4),
     product_handle |-> Str(H1),
     published |-> JTrue,
     reviewer |-> Reviewer(Str(<<"j", "o", "h", "n">>)),
     verified |-> Str(<<"b", "u", "y", "e", "r">>),
     pictures |-> Pictures(<< [urls |-> Urls(Str(<<"o">>), Str(<<"g">>))] >>),
     created_at |-> Str(<<"2", "0", "2", "4">>)]

(* The review with every optional field missing *)
BareReview ==
    [id |-> Absent, title |-> Absent, body |-> Absent, rating |-> Absent,
     product_handle |-> Str(H1), published |-> JTrue, reviewer |-> NoReviewer,
     verified |-> Absent, pictures |-> NoPictures, created_at |-> Absent]

WithId(r, i) == [r EXCEPT !.id = JInt(i)]

ReviewPool ==
    { WithId(FullReview, 1),
      WithId([FullReview EXCEPT !.published = JFalse], 2),
      WithId([FullReview EXCEPT !.published = Absent], 3),
      WithId([FullReview EXCEPT !.published = JInt(1)], 4),
      WithId([FullReview EXCEPT !.published = Str(<<"t", "r", "u", "e">>)], 5),
      WithId([FullReview EXCEPT !.product_handle = Str(H2)], 6),
      WithId([FullReview EXCEPT !.rating = JInt(7)], 7),
      WithId([FullReview EXCEPT !.rating = Str(<<"a", "b", "c">>)], 8),
      BareReview }

(* What the records of a page of 40, 99 or 100 are copies of *)
BulkKinds == { FullReview, [FullReview EXCEPT !.published = JFalse] }

BulkSizes == {40, 99, PerPage}

(* A page of n records of one kind, numbered as the pg-th page of the shop *)
BulkPage(kind, n, pg) == [i \in 1..n |-> WithId(kind, (pg - 1) * PerPage + i)]

SeqsUpTo(S, n) == UNION { [1..k -> S] : k \in 0..n }

HttpReply(status_code, json_ok, reviews) ==
    [kind |-> "http", status_code |-> status_code, json_ok |-> json_ok,
     reviews |-> reviews]

NoItems == [t |-> "absent", items |-> <<>>]

Items(items) == [t |-> "list", items |-> items]

FailureReplies ==
    { [kind |-> "exception", status_code |-> 0, json_ok |-> FALSE, reviews |-> NoItems],
      HttpReply(500, TRUE, NoItems),
      HttpReply(429, TRUE, Items(<<FullReview>>)),
      HttpReply(200, FALSE, NoItems) }

OkReplies(pg) ==
    { HttpReply(200, TRUE, NoItems), HttpReply(200, TRUE, [t |-> "null", items |-> <<>>]) }
    \cup { HttpReply(200, TRUE, Items(b)) : b \in SeqsUpTo(ReviewPool, MaxSmall) }
    \cup { HttpReply(200, TRUE, Items(BulkPage(k, n, pg))) : k \in BulkKinds, n \in BulkSizes }

UpstreamReplies(pg) == FailureReplies \cup OkReplies(pg)

(* request.args.get('handle'): None, '' or a handle *)
HandleArgs == { JNull, Str(<<>>), Str(H1) }

---------------------------------------------------------------------------
(* The list request as a process *)

Init ==
    /\ pc = "idle"
    /\ target_handle = JNull
    /\ page = 1
    /\ all_reviews = <<>>
    /\ requests = <<>>
    /\ replies = <<>>
    /\ raw_reviews = <<>>
    /\ filtered_reviews = <<>>
    /\ response = NoResponse
    /\ fn_in = <<>>
    /\ fn_out = NoStats

(* if not target_handle: return 400 *)
RejectRequest(h) ==
    /\ pc = "idle"
    /\ ~Truthy(h)
    /\ target_handle' = h
    /\ response' = MissingHandle
    /\ pc' = "done"
    /\ UNCHANGED <<page, all_reviews, requests, replies, raw_reviews,
                   filtered_reviews, fn_in, fn_out>>

(* the route enters fetch_all_shop_reviews: all_reviews = [], page = 1 *)
AcceptRequest(h) ==
    /\ pc = "idle"
    /\ Truthy(h)
    /\ target_handle' = h
    /\ page' = 1
    /\ all_reviews' = <<>>
    /\ pc' = "fetch"
    /\ UNCHANGED <<requests, replies, raw_reviews, filtered_reviews, response,
                   fn_in, fn_out>>

(* a pass of the loop that goes round again *)
FetchNextPage(reply) ==
    /\ pc = "fetch"
    /\ page <= MaxPages
    /\ LET out == FetchBody(page, all_reviews, reply)
       IN  /\ ~out.stop
           /\ page' = out.page
           /\ all_reviews' = out.all_reviews
    /\ requests' = Append(requests, Params(page))
    /\ replies' = Append(replies, reply)
    /\ UNCHANGED <<pc, target_handle, raw_reviews, filtered_reviews, response,
                   fn_in, fn_out>>

(* the pass that breaks out of the loop; the fetcher returns all_reviews and
   the route filters, aggregates, normalizes and responds *)
FetchLastPage(reply) ==
    /\ pc = "fetch"
    /\ page <= MaxPages
    /\ LET out == FetchBody(page, all_reviews, reply)
           filtered == FilterReviews(out.all_reviews, target_handle.s)
       IN  /\ out.stop
           /\ page' = out.page
           /\ all_reviews' = out.all_reviews
           /\ raw_reviews' = out.all_reviews
           /\ filtered_reviews' = filtered
           /\ response' = Respond(filtered)
    /\ requests' = Append(requests, Params(page))
    /\ replies' = Append(replies, reply)
    /\ pc' = "done"
    /\ UNCHANGED <<target_handle, fn_in, fn_out>>

Next ==
    \/ \E h \in HandleArgs : RejectRequest(h)
    \/ \E h \in HandleArgs : AcceptRequest(h)
    \/ \E reply \in UpstreamReplies(page) : FetchNextPage(reply)
    \/ \E reply \in UpstreamReplies(page) : FetchLastPage(reply)

Spec == Init /\ [][Next]_vars

---------------------------------------------------------------------------
(* calculate_stats on its own: every list of reviews up to MaxWide long    *)
(* over a wide range of raw ratings, and up to MaxNarrow long over a few   *)

Rated(v) == [FullReview EXCEPT !.rating = v]

WideRatings ==
    { Absent, JNull, JTrue, JInt(0), JInt(3), JInt(7), JInt(-2), JFloat(47),
      Str(<<"a", "b", "c">>), Str(<<"4">>), Str(<<" ", "2", " ">>),
      Str(<<"4", ".", "5">>) }

NarrowRatings == { JInt(1), JInt(4), JInt(5) }

StatsInputs ==
    SeqsUpTo({ Rated(v) : v \in WideRatings }, MaxWide)
    \cup SeqsUpTo({ Rated(v) : v \in NarrowRatings }, MaxNarrow)

InitStats ==
    /\ pc = "stats"
    /\ fn_in \in StatsInputs
    /\ fn_out = NoStats
    /\ target_handle = JNull
    /\ page = 1
    /\ all_reviews = <<>>
    /\ requests = <<>>
    /\ replies = <<>>
    /\ raw_reviews = <<>>
    /\ filtered_reviews = <<>>
    /\ response = NoResponse

CallStats ==
    /\ pc = "stats"
    /\ fn_out' = calculate_stats(fn_in)
    /\ pc' = "stats_done"
    /\ UNCHANGED <<target_handle, page, all_reviews, requests, replies,
                   raw_reviews, filtered_reviews, response, fn_in>>

NextStats == CallStats

SpecStats == InitStats /\ [][NextStats]_vars

---------------------------------------------------------------------------
(* The normalizing loop body on its own: a filtered review with any subset *)
(* of the fields it reads missing, and reviews with ill-typed fields       *)

Fields ==
    { "id", "title", "body", "rating", "reviewer", "name", "verified",
      "pictures", "urls", "created_at" }

(* FullReview without the fields of F *)
Without(F) ==
    [id |-> IF "id" \in F THEN Absent ELSE FullReview.id,
     title |-> IF "title" \in F THEN Absent ELSE FullReview.title,
     body |-> IF "body" \in F THEN Absent ELSE FullReview.body,
     rating |-> IF "rating" \in F THEN Absent ELSE FullReview.rating,
     product_handle |-> FullReview.product_handle,
     published |-> FullReview.published,
     reviewer |-> IF "reviewer" \in F THEN NoReviewer
                  ELSE Reviewer(IF "name" \in F THEN Absent ELSE FullReview.reviewer.name),
     verified |-> IF "verified" \in F THEN Absent ELSE FullReview.verified,
     pictures |-> IF "pictures" \in F THEN NoPictures
                  ELSE Pictures(<< [urls |-> IF "urls" \in F THEN NoUrls
                                             ELSE FullReview.pictures.items[1].urls] >>),
     created_at |-> IF "created_at" \in F THEN Absent ELSE FullReview.created_at]

MissingInputs == { Without(F) : F \in SUBSET Fields }

Named(name) == [FullReview EXCEPT !.reviewer = Reviewer(name)]

OddInputs ==
    { Rated(v) : v \in WideRatings }
    \cup { Named(Str(<<"a", "n", "o", "n", "y", "m", "o", "u", "s">>)),
           Named(Str(<<"A", "N", "O", "N", "Y", "M", "O", "U", "S">>)),
           Named(Str(Anonymous)),
           Named(Str(<<>>)),
           Named(JNull),
           Named(JInt(5)),
           [FullReview EXCEPT !.reviewer = NullReviewer],
           [FullReview EXCEPT !.verified = JNull],
           [FullReview EXCEPT !.verified = Str(<<"n", "o">>)],
           [FullReview EXCEPT !.pictures = Pictures(<<>>)],
           [FullReview EXCEPT !.pictures =
               Pictures(<< [urls |-> [t |-> "null", original |-> Absent, huge |-> Absent]] >>)],
           [FullReview EXCEPT !.pictures =
               Pictures(<< [urls |-> Urls(Absent, Str(<<"g">>))],
                           [urls |-> Urls(Str(<<>>), Absent)] >>)] }

NormInputs == MissingInputs \cup OddInputs

NoPass == [raised |-> FALSE, review |-> NoReview]

InitNorm ==
    /\ pc = "norm"
    /\ fn_in \in NormInputs
    /\ fn_out = NoPass
    /\ target_handle = JNull
    /\ page = 1
    /\ all_reviews = <<>>
    /\ requests = <<>>
    /\ replies = <<>>
    /\ raw_reviews = <<>>
    /\ filtered_reviews = <<>>
    /\ response = NoResponse

CallNormalize ==
    /\ pc = "norm"
    /\ fn_out' = Normalize(fn_in)
    /\ pc' = "norm_done"
    /\ UNCHANGED <<target_handle, page, all_reviews, requests, replies,
                   raw_reviews, filtered_reviews, response, fn_in>>

NextNorm == CallNormalize

SpecNorm == InitNorm /\ [][NextNorm]_vars

---------------------------------------------------------------------------
(* Properties *)

(* The records of the i-th reply's page; none when it carries no list *)
PageRecords(i) ==
    IF replies[i].reviews.t = "list" THEN replies[i].reviews.items ELSE <<>>

PageSizes == [i \in 1..Len(replies) |-> Len(PageRecords(i))]

(* The pages 1..k one after the other *)
RECURSIVE Received(_)
Received(k) == IF k = 0 THEN <<>> ELSE Received(k - 1) \o PageRecords(k)

(* The i-th GET met a non-200 status, a transport exception or a body that
   does not parse *)
PageFailed(i) ==
    \/ replies[i].kind = "exception"
    \/ replies[i].status_code # 200
    \/ ~replies[i].json_ok

(* C1: as long as every page so far came back with status 200, the GETs
   issued are pages 1, 2, 3, ... in order, each with per_page = 100; the
   fetcher is still looping only if every page so far held 100 records and
   has returned only if the last page, and no page before it, held fewer than
   100 (zero included); what it holds or returns is the pages received laid
   end to end.  Sizes [100,100,40] end in 3 GETs and 240 records, sizes
   [100,100,100,0] in 4 GETs and 300 records. *)
C1_PaginationStopsAtFirstShortPage ==
    LET n == Len(replies)
    IN  (pc \in {"fetch", "done"} /\ \A i \in 1..n : ~PageFailed(i)) =>
           /\ Len(requests) = n
           /\ \A i \in 1..n : requests[i] = [per_page |-> 100, page |-> i]
           /\ \A i \in 1..(n - 1) : PageSizes[i] = 100
           /\ pc = "fetch" => /\ n > 0 => PageSizes[n] = 100
                              /\ page = n + 1
                              /\ all_reviews = Received(n)
           /\ (pc = "done" /\ n > 0) => /\ PageSizes[n] < 100
                                        /\ raw_reviews = Received(n)
           /\ (n >= 3 /\ SubSeq(PageSizes, 1, 3) = <<100, 100, 40>>) =>
                  /\ pc = "done"
                  /\ n = 3
                  /\ Len(raw_reviews) = 240
           /\ (n >= 4 /\ SubSeq(PageSizes, 1, 4) = <<100, 100, 100, 0>>) =>
                  /\ pc = "done"
                  /\ n = 4
                  /\ Len(raw_reviews) = 300

C1_Witness ==
    /\ pc = "done"
    /\ \A i \in 1..Len(replies) : ~PageFailed(i)
    /\ PageSizes = <<100, 100, 40>>
    /\ Len(requests) = 3
    /\ Len(raw_reviews) = 240

(* C2: a page whose GET failed is the last page asked for: it is asked for
   once, nothing is asked after it, the fetcher has returned to the route,
   which went on to answer, and what it returned is exactly the records of
   the pages before the failed one. *)
C2_FailureEndsPaginationSoftly ==
    \A k \in 1..Len(replies) :
        PageFailed(k) =>
           /\ k = Len(replies)
           /\ Len(requests) = k
           /\ \A j \in 1..k : requests[j].page = j
           /\ pc = "done"
           /\ raw_reviews = Received(k - 1)
           /\ response.status # 0

C2_Witness ==
    /\ pc = "done"
    /\ Len(replies) = 3
    /\ PageFailed(3)
    /\ Len(raw_reviews) = 200

(* C3: once a request with a handle is answered, the filtered list is the
   sub-list, in fetch order, of the raw reviews whose product_handle is the
   handle asked for and whose published is the JSON true, and nothing else;
   a 200 answer aggregates and returns exactly those reviews, in that order. *)
C3_FilterKeepsPublishedOfHandle ==
    (pc = "done" /\ Truthy(target_handle)) =>
        LET wanted == SelectSeq(raw_reviews,
                                LAMBDA r : /\ r.product_handle = JStr(target_handle.s)
                                           /\ r.published = JTrue)
        IN  /\ filtered_reviews = wanted
            /\ response.status = 200 =>
                  /\ response.stats.count = Len(wanted)
                  /\ Len(response.reviews) = Len(wanted)
                  /\ \A i \in 1..Len(wanted) :
                        response.reviews[i].id = Get(wanted[i].id, JNull)

C3_Witness ==
    /\ pc = "done"
    /\ response.status = 200
    /\ Len(filtered_reviews) = 100
    /\ \E i \in 1..Len(raw_reviews) :
          /\ raw_reviews[i].product_handle = JStr(H1)
          /\ raw_reviews[i].published = JFalse
    /\ \E i \in 1..Len(raw_reviews) :
          /\ raw_reviews[i].product_handle = JStr(H2)
          /\ raw_reviews[i].published = JTrue

SumOfDistribution(d) == d[1] + d[2] + d[3] + d[4] + d[5]

(* C4: the summary's count is the length of the input and the five
   distribution values add up to it, the empty list included. *)
C4_DistributionSumsToCount ==
    pc = "stats_done" =>
        /\ fn_out.count = Len(fn_in)
        /\ DOMAIN fn_out.distribution = 1..5
        /\ SumOfDistribution(fn_out.distribution) = fn_out.count

C4_Witness ==
    /\ pc = "stats_done"
    /\ Len(fn_in) = 2
    /\ fn_in[1].rating = JInt(0)
    /\ fn_in[2].rating = Str(<<"a", "b", "c">>)
    /\ fn_out.count = 2

(* The bucket the claim gives a raw rating: its integer value when it has
   one, 5 when it is absent or has none, then at least 1 and at most 5 *)
BucketOf(v) ==
    LET value ==
            CASE v = Absent -> 5
              [] v = JNull -> 5
              [] v = JTrue -> 1
              [] v.t = "int" -> v.n
              [] v = JFloat(47) -> 4
              [] v = Str(<<"4">>) -> 4
              [] v = Str(<<" ", "2", " ">>) -> 2
              [] v = Str(<<"4", ".", "5">>) -> 5
              [] v = Str(<<"a", "b", "c">>) -> 5
    IN  IF value < 1 THEN 1 ELSE IF value > 5 THEN 5 ELSE value

(* C5: each bucket of the distribution holds the number of input reviews
   whose coerced rating is that bucket: 7 is counted as 5, 0 as 1, "abc" and
   an absent rating as 5. *)
C5_EachReviewCountedInItsBucket ==
    pc = "stats_done" =>
        \A k \in 1..5 :
            fn_out.distribution[k] =
                Cardinality({ i \in 1..Len(fn_in) : BucketOf(fn_in[i].rating) = k })

C5_Witness ==
    /\ pc = "stats_done"
    /\ Len(fn_in) = 2
    /\ fn_in[1].rating = JInt(7)
    /\ fn_in[2].rating = Str(<<"a", "b", "c">>)
    /\ fn_out.distribution[5] = 2

(* The sum of the coerced ratings of the input *)
RatingSum ==
    LET d == [k \in 1..5 |->
                 Cardinality({ i \in 1..Len(fn_in) : BucketOf(fn_in[i].rating) = k })]
    IN  d[1] + 2 * d[2] + 3 * d[3] + 4 * d[4] + 5 * d[5]

ZeroSummary == [average |-> 0, count |-> 0, distribution |-> [k \in 1..5 |-> 0]]

(* C6 as stated: the average is sum/count rounded to 2 decimals with halves
   rounded up (in hundredths), and the empty list gives the zero summary. *)
C6_AverageRoundsHalfUp ==
    pc = "stats_done" =>
        IF Len(fn_in) = 0 THEN fn_out = ZeroSummary
        ELSE fn_out.average = (200 * RatingSum + Len(fn_in)) \div (2 * Len(fn_in))

(* C6 as amended: the average is sum/count rounded to the nearest hundredth;
   when sum/count lies exactly halfway between two hundredths it goes to the
   even one if it is a binary fraction (a multiple of 1/8, which a double
   holds exactly), and to one of the two neighbours otherwise; ratings
   [4,4,5] give 4.33; the empty list gives the zero summary. *)
C6_AverageRoundsHalfEven ==
    pc = "stats_done" =>
        IF Len(fn_in) = 0 THEN fn_out = ZeroSummary
        ELSE LET count == Len(fn_in)
                 h == (100 * RatingSum) \div count
                 rem == (100 * RatingSum) % count
             IN  /\ 2 * rem < count => fn_out.average = h
                 /\ 2 * rem > count => fn_out.average = h + 1
                 /\ 2 * rem = count =>
                       IF (2 * h + 1) % 25 = 0
                       THEN fn_out.average = (IF h % 2 = 0 THEN h ELSE h + 1)
                       ELSE fn_out.average \in {h, h + 1}
                 /\ (count = 3 /\ RatingSum = 13) => fn_out.average = 433

C6_Witness ==
    /\ pc = "stats_done"
    /\ Len(fn_in) = 8
    /\ RatingSum = 33
    /\ fn_out.average = 412

(* C7: a filtered review with any subset of the fields the normalizer reads
   missing is normalized without an exception, into one review whose missing
   fields took their defaults. *)
C7_MissingFieldsNeverRaise ==
    (pc = "norm_done" /\ fn_in \in MissingInputs) =>
        /\ ~fn_out.raised
        /\ fn_in.id = Absent => fn_out.review.id = JNull
        /\ fn_in.title = Absent => fn_out.review.title = JNull
        /\ fn_in.body = Absent => fn_out.review.body = JNull
        /\ fn_in.created_at = Absent => fn_out.review.date = JNull
        /\ fn_in.rating = Absent => fn_out.review.rating = 5
        /\ (fn_in.reviewer.t = "absent" \/ fn_in.reviewer.name = Absent) =>
              fn_out.review.author = JStr(Anonymous)
        /\ fn_in.verified = Absent => ~fn_out.review.is_verified
        /\ (fn_in.pictures.t = "absent" \/ fn_in.pictures.items[1].urls.t = "absent") =>
              fn_out.review.media = <<>>

C7_Witness ==
    /\ pc = "norm_done"
    /\ fn_in = Without(Fields)
    /\ ~fn_out.raised
    /\ fn_out.review.rating = 5

(* str.lower() of one character *)
Lower(c) ==
    IF \E i \in 1..26 : UpperCase[i] = c
    THEN LowerCase[CHOOSE i \in 1..26 : UpperCase[i] = c]
    ELSE c

LowerStr(str) == [i \in 1..Len(str) |-> Lower(str[i])]

VerifiedBuyer ==
    <<"V", "e", "r", "i", "f", "i", "e", "d", " ", "B", "u", "y", "e", "r">>

(* The raw author name of a review: the reviewer's name, "Anonymous" when
   the review has none *)
ResolvedName(r) ==
    IF r.reviewer.t = "absent" THEN JStr(Anonymous)
    ELSE Get(r.reviewer.name, JStr(Anonymous))

(* C8: a normalized review whose raw author name is "Anonymous" in any letter
   case, the default included, has author "Verified Buyer" and the initials
   "V". *)
C8_AnonymousBecomesVerifiedBuyer ==
    (/\ pc = "norm_done"
     /\ ~fn_out.raised
     /\ fn_in.reviewer.t # "null"
     /\ ResolvedName(fn_in).t = "str"
     /\ LowerStr(ResolvedName(fn_in).s) = LowerStr(Anonymous)) =>
        /\ fn_out.review.author = JStr(VerifiedBuyer)
        /\ fn_out.review.initials = <<"V">>

(* C9: every review of a 200 answer shows an integer rating within 1..5, the
   very bucket calculate_stats counted that review in. *)
C9_ShownRatingIsCountedRating ==
    (pc = "done" /\ response.status = 200) =>
        \A i \in 1..Len(response.reviews) :
            /\ response.reviews[i].rating \in 1..5
            /\ response.reviews[i].rating = BucketOf(filtered_reviews[i].rating)

(* C10: a request ends with status 400 and an error message exactly when it
   carries no handle, and with status 200 otherwise, whatever the upstream
   answered. *)
C10_AnswerIs400Or200 ==
    pc = "done" =>
        IF Truthy(target_handle)
        THEN response.status = 200
        ELSE response.status = 400 /\ response.error # ""

=============================================================================
